---- MODULE Spec2Model ----
(***************************************************************************)
(* The vote-and-answer consistency model of the forum's Question           *)
(* aggregate: server/models/Question.js (schema, methods, pre-save hook)   *)
(* and the handlers of server/routes/questions.js that load one Question   *)
(* document, change it in memory and save it.                              *)
(*                                                                         *)
(* A document is persisted through Mongoose's save(): only the paths the   *)
(* handler modified are written.  An array that was only pushed to is      *)
(* written with $push, an array that was assigned a different value is     *)
(* written whole with $set, and a write that could move array positions    *)
(* is conditional on the document version __v (VersionError otherwise).    *)
(* The in-memory document therefore carries, next to its fields, the       *)
(* modification state of every path the handlers touch.                    *)
(*                                                                         *)
(* The question's creation and soft delete also update the questionsAsked  *)
(* counter of User documents and the questionCount of Topic documents      *)
(* (server/models/User.js, server/models/Topic.js).                        *)
(*                                                                         *)
(* The account routes (register, login, profile update, account deletion)  *)
(* act on the User documents, and the question detail view of the client   *)
(* (src/components/QuestionDetail.jsx) sends the answer votes.             *)
(***************************************************************************)
EXTENDS Integers, Sequences, FiniteSets, TLC

VARIABLES
    db,        \* the persisted Question document
    prev,      \* the persisted document before the last request was served
    now,       \* Date.now(), in milliseconds
    req,       \* the request handled last
    res,       \* the response sent to it
    memdoc,    \* the in-memory document that request answered from
    inflight,  \* concurrent requests between their load and their save
    started,   \* number of requests started so far
    counted,   \* history: every view-log entry ever appended, in order
    arrived,   \* history: number of distinct users that have viewed
    userDocs,  \* the persisted User documents (questionsAsked)
    topicDocs, \* the persisted Topic documents (questionCount, followerCount)
    prevDocs,  \* the User and Topic documents before the last request
    client     \* the question detail view of one browser (QuestionDetail.jsx)

vars == <<db, prev, now, req, res, memdoc, inflight, started, counted, arrived,
          userDocs, topicDocs, prevDocs, client>>

----------------------------------------------------------------------------
(* Bounds of the model *)

MaxAnswers == 2
MaxRequests == 3
MaxStarted == 3
MaxArrivals == 101
MaxLogViews == 103
MaxLifeRequests == 3
MaxNow == 2
MaxWindowViews == 4
MaxUserRequests == 3
MaxClientVotes == 3

(* Program constants *)

MinAnswerLength == 10
ViewLogCapacity == 100
DayMs == 86400000

Users == {"u1", "u2", "u3"}
Anonymous == "anonymous"
QuestionAuthor == "u1"
role(u) == IF u = "u3" THEN "admin" ELSE "user"

VoteTypes == {"upvote", "downvote", "remove", "bogus"}
Titles == {"t0", "t1"}
NoTitle == "undefined"
TopicIds == {"tA", "tB"}
NoTopics == {"undefined"}

ValidContent == <<" ", "a", "n", " ", "a", "n", "s", "w", "e", "r", "!", "!", " ">>
ShortContent == <<"o", "k", " ">>
BlankContent == <<" ", " ">>
Contents == {<<>>, BlankContent, ShortContent, ValidContent}

Last(s) == s[Len(s)]
Min(a, b) == IF a < b THEN a ELSE b

----------------------------------------------------------------------------
(* The Question document *)

NewQuestion(author, t) ==
    [author |-> author, title |-> "t0",
     upvotes |-> <<>>, downvotes |-> <<>>,
     answers |-> <<>>,
     views |-> 0, viewedBy |-> <<>>, topics |-> {},
     isActive |-> TRUE, lastActivity |-> t, v |-> 0]

NewAnswer_SelfUpvoted(content, author) ==
    [content |-> content, author |-> author,
     upvotes |-> <<author>>, downvotes |-> <<>>, isAccepted |-> FALSE]

NewAnswer(content, author) ==
    [content |-> content, author |-> author,
     upvotes |-> <<>>, downvotes |-> <<>>, isAccepted |-> FALSE]

voteScore_CountsAll(d) == Len(d.upvotes) + Len(d.downvotes)

voteScore(d) == Len(d.upvotes) - Len(d.downvotes)

includes(arr, id) == \E i \in DOMAIN arr : arr[i] = id

----------------------------------------------------------------------------
(* The in-memory document: fields plus modification state.                 *)
(* An array path is "none" (not modified), "push" (only pushed to: saved   *)
(* with $push of its last element) or "set" (assigned: saved whole).       *)

Clean ==
    [upvotes |-> "none", downvotes |-> "none", answers |-> "none",
     aidx |-> 0, aup |-> "none", adown |-> "none",
     viewedBy |-> "none", topics |-> "none", scalars |-> {}]

findById(doc) == [d |-> doc, mod |-> Clean]

filter_Nothing(arr, userId) == arr

filter(arr, userId) == SelectSeq(arr, LAMBDA id : id # userId)

\* Assigning an array marks the path modified unless the value is unchanged
setArray(atom, prior, val) ==
    IF atom # "none" \/ val # prior THEN "set" ELSE "none"

\* push() registers $push unless the whole array is already to be written
pushArray(atom) == IF atom = "set" THEN "set" ELSE "push"

----------------------------------------------------------------------------
(* questionSchema.methods.vote, up to its save() *)

vote_KeepsOtherVote(m, userId, voteType) ==
    CASE voteType = "upvote" ->
           [d |-> [m.d EXCEPT !.upvotes = Append(filter(@, userId), userId)],
            mod |-> [m.mod EXCEPT !.upvotes = "set"]]
      [] voteType = "downvote" ->
           [d |-> [m.d EXCEPT !.downvotes = Append(filter(@, userId), userId)],
            mod |-> [m.mod EXCEPT !.downvotes = "set"]]
      [] OTHER -> m

vote_RemoveIgnored(m, userId, voteType) ==
    IF voteType = "remove"
    THEN m
    ELSE vote_KeepsOtherVote(m, userId, voteType)

vote(m, userId, voteType) ==
    LET up1 == filter(m.d.upvotes, userId)
        dn1 == filter(m.d.downvotes, userId)
        ua  == setArray(m.mod.upvotes, m.d.upvotes, up1)
        da  == setArray(m.mod.downvotes, m.d.downvotes, dn1)
    IN  CASE voteType = "upvote" ->
               [d |-> [m.d EXCEPT !.upvotes = Append(up1, userId),
                                   !.downvotes = dn1],
                mod |-> [m.mod EXCEPT !.upvotes = pushArray(ua),
                                       !.downvotes = da]]
          [] voteType = "downvote" ->
               [d |-> [m.d EXCEPT !.upvotes = up1,
                                   !.downvotes = Append(dn1, userId)],
                mod |-> [m.mod EXCEPT !.upvotes = ua,
                                       !.downvotes = pushArray(da)]]
          [] OTHER ->
               [d |-> [m.d EXCEPT !.upvotes = up1, !.downvotes = dn1],
                mod |-> [m.mod EXCEPT !.upvotes = ua, !.downvotes = da]]

----------------------------------------------------------------------------
(* The ledger update of POST /:id/answers/:answerId/vote on answer i *)

answerVote_KeepsOtherVote(m, i, userId, voteType) ==
    IF voteType = "upvote"
    THEN [d |-> [m.d EXCEPT !.answers[i].upvotes = Append(filter(@, userId), userId)],
          mod |-> [m.mod EXCEPT !.aidx = i, !.aup = "set"]]
    ELSE [d |-> [m.d EXCEPT !.answers[i].downvotes = Append(filter(@, userId), userId)],
          mod |-> [m.mod EXCEPT !.aidx = i, !.adown = "set"]]

answerVote_NoFilter(m, i, userId, voteType) ==
    IF voteType = "upvote"
    THEN [d |-> [m.d EXCEPT !.answers[i].upvotes = Append(@, userId),
                             !.answers[i].downvotes = filter(@, userId)],
          mod |-> [m.mod EXCEPT !.aidx = i, !.aup = "set", !.adown = "set"]]
    ELSE [d |-> [m.d EXCEPT !.answers[i].upvotes = filter(@, userId),
                             !.answers[i].downvotes = Append(@, userId)],
          mod |-> [m.mod EXCEPT !.aidx = i, !.aup = "set", !.adown = "set"]]

answerVote(m, i, userId, voteType) ==
    LET a   == m.d.answers[i]
        up1 == filter(a.upvotes, userId)
        dn1 == filter(a.downvotes, userId)
        ua  == setArray(m.mod.aup, a.upvotes, up1)
        da  == setArray(m.mod.adown, a.downvotes, dn1)
    IN  IF voteType = "upvote"
        THEN [d |-> [m.d EXCEPT !.answers[i].upvotes = Append(up1, userId),
                                 !.answers[i].downvotes = dn1],
              mod |-> [m.mod EXCEPT !.aidx = i, !.aup = pushArray(ua), !.adown = da]]
        ELSE [d |-> [m.d EXCEPT !.answers[i].upvotes = up1,
                                 !.answers[i].downvotes = Append(dn1, userId)],
              mod |-> [m.mod EXCEPT !.aidx = i, !.aup = ua, !.adown = pushArray(da)]]

----------------------------------------------------------------------------
(* questionSchema.methods.incrementViews, up to its save() *)

hasRecentView_AnyAge(d, userId, t) ==
    \E i \in DOMAIN d.viewedBy : d.viewedBy[i].user = userId

hasRecentView(d, userId, t) ==
    \E i \in DOMAIN d.viewedBy :
        d.viewedBy[i].user = userId /\ (t - d.viewedBy[i].viewedAt) < DayMs

slice_KeepsAll(arr, n) == arr

slice_KeepsOldest(arr, n) == IF Len(arr) > n THEN SubSeq(arr, 1, n) ELSE arr

slice(arr, n) == IF Len(arr) > n THEN SubSeq(arr, Len(arr) - n + 1, Len(arr)) ELSE arr


incrementViews(m, userId, t) ==
    IF hasRecentView(m.d, userId, t)
    THEN m
    ELSE LET pushed == Append(m.d.viewedBy, [user |-> userId, viewedAt |-> t])
             atom   == pushArray(m.mod.viewedBy)
             over   == Len(pushed) > ViewLogCapacity
             kept   == IF over THEN slice(pushed, ViewLogCapacity) ELSE pushed
         IN  [d |-> [m.d EXCEPT !.views = @ + 1, !.viewedBy = kept],
              mod |-> [m.mod EXCEPT
                         !.scalars = @ \cup {"views"},
                         !.viewedBy = IF over THEN setArray(atom, pushed, kept)
                                              ELSE atom]]

----------------------------------------------------------------------------
(* save(): the pre-save hook, validation, and the write of the modified    *)
(* paths onto the stored document                                          *)

isModifiedAnswers_ListOnly(mod) == mod.answers # "none"

isModifiedAnswers(mod) ==
    mod.answers # "none" \/ mod.aup # "none" \/ mod.adown # "none"

preSave_Epoch(m, t) ==
    IF m.mod.answers # "none"
    THEN [d |-> [m.d EXCEPT !.lastActivity = 0],
          mod |-> [m.mod EXCEPT !.scalars = @ \cup {"lastActivity"}]]
    ELSE m

preSave(m, t) ==
    IF isModifiedAnswers(m.mod)
    THEN [d |-> [m.d EXCEPT !.lastActivity = t],
          mod |-> [m.mod EXCEPT !.scalars = @ \cup {"lastActivity"}]]
    ELSE m

\* answerSchema: content minlength 10, checked on the answer being added
validate(m) ==
    m.mod.answers = "none" \/ Len(Last(m.d.answers).content) >= MinAnswerLength

arrayAtoms(mod) ==
    {mod.upvotes, mod.downvotes, mod.answers, mod.viewedBy, mod.topics,
     mod.aup, mod.adown}

\* the write is conditional on __v: an array written whole, or a write into
\* an element of the answers array
versionWhere(mod) ==
    \/ "set" \in {mod.upvotes, mod.downvotes, mod.answers, mod.viewedBy, mod.topics}
    \/ mod.aup # "none"
    \/ mod.adown # "none"

\* the write increments __v: any array modification
versionInc(mod) == arrayAtoms(mod) # {"none"}

writeArray(atom, stored, mem) ==
    CASE atom = "set"  -> mem
      [] atom = "push" -> Append(stored, Last(mem))
      [] OTHER         -> stored

writeScalar(name, mod, stored, mem) ==
    IF name \in mod.scalars THEN mem ELSE stored

writeAnswers(cur, m) ==
    LET pushed == writeArray(m.mod.answers, cur.answers, m.d.answers)
        i      == m.mod.aidx
    IN  IF i = 0
        THEN pushed
        ELSE [pushed EXCEPT
                ![i].upvotes = writeArray(m.mod.aup, @, m.d.answers[i].upvotes),
                ![i].downvotes = writeArray(m.mod.adown, @, m.d.answers[i].downvotes)]

update_WholeDocument(cur, m) == [m.d EXCEPT !.v = cur.v + 1]

update(cur, m) ==
    [cur EXCEPT
       !.upvotes = writeArray(m.mod.upvotes, @, m.d.upvotes),
       !.downvotes = writeArray(m.mod.downvotes, @, m.d.downvotes),
       !.answers = writeAnswers(cur, m),
       !.viewedBy = writeArray(m.mod.viewedBy, @, m.d.viewedBy),
       !.topics = IF m.mod.topics = "set" THEN m.d.topics ELSE @,
       !.views = writeScalar("views", m.mod, @, m.d.views),
       !.title = writeScalar("title", m.mod, @, m.d.title),
       !.isActive = writeScalar("isActive", m.mod, @, m.d.isActive),
       !.lastActivity = writeScalar("lastActivity", m.mod, @, m.d.lastActivity),
       !.v = IF versionInc(m.mod) THEN @ + 1 ELSE @]


save(cur, m0, t) ==
    LET m == preSave(m0, t)
    IN  IF ~validate(m)
        THEN [error |-> "ValidationError", doc |-> cur, mem |-> m.d]
        ELSE IF versionWhere(m.mod) /\ cur.v # m.d.v
        THEN [error |-> "VersionError", doc |-> cur, mem |-> m.d]
        ELSE [error |-> "none", doc |-> update(cur, m), mem |-> m.d]

----------------------------------------------------------------------------
(* Requests and responses *)

QId == "q1"
QuestionIds == {QId, "missing"}
AnswerIds == 1 .. (MaxAnswers + 1)
Readers == Users \cup {Anonymous}

Request(op, id, user, voteType, answerId, content, title, topics) ==
    [op |-> op, id |-> id, user |-> user, voteType |-> voteType,
     answerId |-> answerId, content |-> content, title |-> title,
     topics |-> topics]

NoRequest == Request("none", QId, Anonymous, "remove", 0, <<>>, NoTitle, NoTopics)

Response(status, message, score, userVote) ==
    [status |-> status, message |-> message,
     voteScore |-> score, userVote |-> userVote]

NoResponse == Response(0, "none", 0, "null")

\* a handler up to its save(): either it has answered, or it holds a
\* modified in-memory document to be saved
Answered(r) == [respond |-> TRUE, res |-> r, m |-> findById(NewQuestion(Anonymous, 0))]
Pending(m) == [respond |-> FALSE, res |-> NoResponse, m |-> m]

exists_Always(id) == TRUE

exists(id) == id = QId

isWhitespace(c) == c = " "

RECURSIVE trimStart(_)
trimStart(s) ==
    IF s # <<>> /\ isWhitespace(Head(s)) THEN trimStart(Tail(s)) ELSE s

RECURSIVE trimEnd(_)
trimEnd(s) ==
    IF s # <<>> /\ isWhitespace(Last(s)) THEN trimEnd(SubSeq(s, 1, Len(s) - 1)) ELSE s

trim_Nothing(s) == s

trim(s) == trimEnd(trimStart(s))

----------------------------------------------------------------------------
(* POST /:id/vote *)

isValidQuestionVote_Any(voteType) == TRUE

isValidQuestionVote(voteType) == voteType \in {"upvote", "downvote", "remove"}

isOwnQuestion(d, userId) == d.author = userId

voteQuestionPlan(r, doc) ==
    IF ~isValidQuestionVote(r.voteType)
    THEN Answered(Response(400, "Invalid vote type", 0, "null"))
    ELSE IF ~exists(r.id) \/ ~doc.isActive
    THEN Answered(Response(404, "Question not found", 0, "null"))
    ELSE IF isOwnQuestion(doc, r.user)
    THEN Answered(Response(400, "Cannot vote on your own question", 0, "null"))
    ELSE Pending(vote(findById(doc), r.user, r.voteType))

voteQuestionReply_EchoesType(r, sv) ==
    IF sv.error # "none"
    THEN Response(500, "Server error recording vote", 0, "null")
    ELSE Response(200, "Vote recorded successfully", voteScore(sv.mem), r.voteType)

voteQuestionReply(r, sv) ==
    IF sv.error # "none"
    THEN Response(500, "Server error recording vote", 0, "null")
    ELSE Response(200, "Vote recorded successfully", voteScore(sv.mem),
                  IF r.voteType = "remove" THEN "null" ELSE r.voteType)

----------------------------------------------------------------------------
(* POST /:id/answers *)

addAnswerPlan_Unshift(r, doc) ==
    IF r.content = <<>> \/ Len(trim(r.content)) = 0
    THEN Answered(Response(400, "Answer content is required", 0, "null"))
    ELSE IF ~exists(r.id)
    THEN Answered(Response(404, "Question not found", 0, "null"))
    ELSE LET m == findById(doc)
         IN  Pending([d |-> [m.d EXCEPT !.answers =
                                 <<NewAnswer(trim(r.content), r.user)>> \o @],
                      mod |-> [m.mod EXCEPT !.answers = "set"]])

addAnswerPlan(r, doc) ==
    IF r.content = <<>> \/ Len(trim(r.content)) = 0
    THEN Answered(Response(400, "Answer content is required", 0, "null"))
    ELSE IF ~exists(r.id)
    THEN Answered(Response(404, "Question not found", 0, "null"))
    ELSE LET m == findById(doc)
         IN  Pending([d |-> [m.d EXCEPT !.answers =
                                 Append(@, NewAnswer(trim(r.content), r.user))],
                      mod |-> [m.mod EXCEPT !.answers = pushArray(@)]])

addAnswerReply(r, sv) ==
    IF sv.error # "none"
    THEN Response(500, "Server error", 0, "null")
    ELSE Response(201, "Answer added successfully", 0, "null")

----------------------------------------------------------------------------
(* POST /:id/answers/:answerId/vote *)

isValidAnswerVote(voteType) == voteType \in {"upvote", "downvote"}

isOwnAnswer_Never(d, i, userId) == FALSE

isOwnAnswer(d, i, userId) == d.answers[i].author = userId

voteAnswerPlan(r, doc) ==
    IF ~isValidAnswerVote(r.voteType)
    THEN Answered(Response(400, "Invalid vote type", 0, "null"))
    ELSE IF ~exists(r.id)
    THEN Answered(Response(404, "Question not found", 0, "null"))
    ELSE IF r.answerId \notin DOMAIN doc.answers
    THEN Answered(Response(404, "Answer not found", 0, "null"))
    ELSE IF isOwnAnswer(doc, r.answerId, r.user)
    THEN Answered(Response(400, "Cannot vote on your own answer", 0, "null"))
    ELSE Pending(answerVote(findById(doc), r.answerId, r.user, r.voteType))

voteAnswerReply(r, sv) ==
    IF sv.error # "none"
    THEN Response(500, "Server error", 0, "null")
    ELSE Response(200, "Vote recorded successfully",
                  voteScore(sv.mem.answers[r.answerId]), r.voteType)

----------------------------------------------------------------------------
(* PUT /:id *)

\* Topic.find({ slug: { $in: ... } }): the topics that exist
find(slugs) == slugs \cap TopicIds

updateQuestionPlan(r, doc) ==
    IF ~exists(r.id) \/ ~doc.isActive
    THEN Answered(Response(404, "Question not found", 0, "null"))
    ELSE IF doc.author # r.user /\ role(r.user) # "admin"
    THEN Answered(Response(403, "Not authorized to update this question", 0, "null"))
    ELSE LET m0 == findById(doc)
             m1 == IF r.title # NoTitle /\ r.title # m0.d.title
                   THEN [d |-> [m0.d EXCEPT !.title = r.title],
                         mod |-> [m0.mod EXCEPT !.scalars = @ \cup {"title"}]]
                   ELSE m0
             m2 == IF r.topics # NoTopics /\ find(r.topics) # m1.d.topics
                   THEN [d |-> [m1.d EXCEPT !.topics = find(r.topics)],
                         mod |-> [m1.mod EXCEPT !.topics = "set"]]
                   ELSE m1
         IN  Pending(m2)

updateQuestionReply(r, sv) ==
    IF sv.error # "none"
    THEN Response(500, "Server error updating question", 0, "null")
    ELSE Response(200, "Question updated successfully", 0, "null")

----------------------------------------------------------------------------
(* DELETE /:id: the soft delete of the question document.  The counter     *)
(* updates that follow the save are in deleteCounters.                     *)

deleteQuestionPlan_Unchecked(r, doc) ==
    IF ~exists(r.id)
    THEN Answered(Response(404, "Question not found", 0, "null"))
    ELSE LET m == findById(doc)
         IN  Pending([d |-> [m.d EXCEPT !.isActive = FALSE],
                      mod |-> [m.mod EXCEPT !.scalars = @ \cup {"isActive"}]])

deleteQuestionPlan(r, doc) ==
    IF ~exists(r.id)
    THEN Answered(Response(404, "Question not found", 0, "null"))
    ELSE IF doc.author # r.user /\ role(r.user) # "admin"
    THEN Answered(Response(403, "Not authorized to delete this question", 0, "null"))
    ELSE LET m == findById(doc)
         IN  IF m.d.isActive
             THEN Pending([d |-> [m.d EXCEPT !.isActive = FALSE],
                           mod |-> [m.mod EXCEPT !.scalars = @ \cup {"isActive"}]])
             ELSE Pending(m)

deleteQuestionReply(r, sv) ==
    IF sv.error # "none"
    THEN Response(500, "Server error deleting question", 0, "null")
    ELSE Response(200, "Question deleted successfully", 0, "null")

\* User.findByIdAndUpdate(id, { $inc: { questionsAsked: n } })
findByIdAndUpdate(users, id, n) ==
    [u \in DOMAIN users |->
        IF u = id THEN [users[u] EXCEPT !.questionsAsked = @ + n] ELSE users[u]]

\* Topic.updateMany({ _id: { $in: ids } }, { $inc: { questionCount: n } })
updateMany(topics, ids, n) ==
    [t \in DOMAIN topics |->
        IF t \in ids THEN [topics[t] EXCEPT !.questionCount = @ + n] ELSE topics[t]]

deleteCounters_Skipped(question, response, users, topics) ==
    [users |-> users, topics |-> topics]

\* the counter updates of DELETE /:id, reached when the save succeeded
deleteCounters(question, response, users, topics) ==
    IF response.status # 200
    THEN [users |-> users, topics |-> topics]
    ELSE [users |-> findByIdAndUpdate(users, question.author, -1),
          topics |-> IF Cardinality(question.topics) > 0
                     THEN updateMany(topics, question.topics, -1)
                     ELSE topics]

----------------------------------------------------------------------------
(* The User document (server/models/User.js) and the account routes.  A    *)
(* user is identified by its username; its role is fixed.  An email is its *)
(* address and the timestamps of the deleted_<timestamp>_ prefixes put in  *)
(* front of it, the latest first.  A password is stored hashed.            *)

MinPasswordLength == 6
GoodPassword == <<"s", "e", "c", "r", "e", "t">>
WrongPassword == <<"w", "r", "o", "n", "g", "1">>
ShortPassword == <<"p", "w">>

emailOf(u) == [address |-> u, deleted |-> <<>>]
NoEmail == [address |-> "undefined", deleted |-> <<>>]
NoBio == "undefined"
NoFlag == {}

hash(password) == <<"bcrypt">> \o password

comparePassword(user, candidate) == user.password = hash(candidate)

NewUser(email, password, t) ==
    [email |-> email, password |-> hash(password), bio |-> "",
     questionsAsked |-> 0, isActive |-> TRUE, lastLogin |-> t]

UserRequest(op, username, user, email, password, bio, isActive) ==
    [op |-> op, id |-> username, user |-> user, voteType |-> "remove",
     answerId |-> 0, content |-> <<>>, title |-> NoTitle, topics |-> NoTopics,
     email |-> email, password |-> password, bio |-> bio, isActive |-> isActive]

UserResult(status, message, users, doc) ==
    [res |-> Response(status, message, 0, "null"), users |-> users, doc |-> doc]

\* the users a query by email matches
byEmail(users, email) == {u \in DOMAIN users : users[u].email = email}

\* POST /register
register(users, doc, r, t) ==
    IF r.email = NoEmail \/ r.password = <<>>
    THEN UserResult(400, "Please provide username, email, and password", users, doc)
    ELSE IF Len(r.password) < MinPasswordLength
    THEN UserResult(400, "Password must be at least 6 characters long", users, doc)
    ELSE IF byEmail(users, r.email) # {}
    THEN UserResult(400, "Email already registered", users, doc)
    ELSE IF r.id \in DOMAIN users
    THEN UserResult(400, "Username already taken", users, doc)
    ELSE UserResult(201, "User registered successfully",
                    [u \in DOMAIN users \cup {r.id} |->
                        IF u = r.id THEN NewUser(r.email, r.password, t) ELSE users[u]],
                    doc)

\* POST /login
login(users, doc, r, t) ==
    IF r.email = NoEmail \/ r.password = <<>>
    THEN UserResult(400, "Please provide email and password", users, doc)
    ELSE LET found == byEmail(users, r.email)
         IN  IF found = {} \/ \A u \in found : ~users[u].isActive
             THEN UserResult(401, "Invalid credentials", users, doc)
             ELSE LET u == CHOOSE x \in found : TRUE
                  IN  IF ~comparePassword(users[u], r.password)
                      THEN UserResult(401, "Invalid credentials", users, doc)
                      ELSE UserResult(200, "Login successful",
                                      [users EXCEPT ![u].lastLogin = t], doc)

\* PUT /profile: the requesting user's own email and bio
updateProfile(users, doc, r) ==
    IF /\ r.email # NoEmail
       /\ r.email # users[r.user].email
       /\ byEmail(users, r.email) \ {r.user} # {}
    THEN UserResult(400, "Email already registered", users, doc)
    ELSE UserResult(200, "Profile updated successfully",
                    [users EXCEPT
                        ![r.user].email = IF r.email # NoEmail THEN r.email ELSE @,
                        ![r.user].bio = IF r.bio # NoBio THEN r.bio ELSE @],
                    doc)

findActiveUser_AnyUser(users, username) ==
    IF username \in DOMAIN users THEN {username} ELSE {}

\* User.findOne({ username, isActive: true })
findActiveUser(users, username) ==
    IF username \in DOMAIN users /\ users[username].isActive THEN {username} ELSE {}

\* PUT /:username
updateUser(users, doc, r) ==
    IF findActiveUser(users, r.id) = {}
    THEN UserResult(404, "User not found", users, doc)
    ELSE IF r.id # r.user /\ role(r.user) # "admin"
    THEN UserResult(403, "Not authorized to update this profile", users, doc)
    ELSE UserResult(200, "Profile updated successfully",
                    [users EXCEPT
                        ![r.id].bio = IF r.bio # NoBio THEN r.bio ELSE @,
                        ![r.id].isActive =
                            IF role(r.user) = "admin" /\ r.isActive # NoFlag
                            THEN r.isActive = {TRUE}
                            ELSE @],
                    doc)

deletedEmail(email, t) == [email EXCEPT !.deleted = <<t>> \o @]

softDelete_Removes(users, username, t) ==
    [u \in DOMAIN users \ {username} |-> users[u]]

softDelete(users, username, t) ==
    [users EXCEPT ![username].isActive = FALSE,
                  ![username].email = deletedEmail(@, t)]

\* Question.updateMany({ author: user._id }, { isActive: false })
deactivateQuestions(doc, username) ==
    IF doc.author = username THEN [doc EXCEPT !.isActive = FALSE] ELSE doc

\* DELETE /:username
deleteUser(users, doc, r, t) ==
    IF r.id \notin DOMAIN users
    THEN UserResult(404, "User not found", users, doc)
    ELSE IF r.id # r.user /\ role(r.user) # "admin"
    THEN UserResult(403, "Not authorized to delete this account", users, doc)
    ELSE IF r.id = r.user /\ role(r.user) = "admin"
    THEN UserResult(400, "Admin cannot delete their own account", users, doc)
    ELSE UserResult(200, "Account deleted successfully",
                    softDelete(users, r.id, t), deactivateQuestions(doc, r.id))

\* The authenticateToken middleware is not part of the sources: a request
\* that carries the token of a deactivated user may or may not pass it.
authenticateToken(users, user) ==
    IF users[user].isActive THEN {TRUE} ELSE {TRUE, FALSE}

----------------------------------------------------------------------------
(* POST /: the new question and the counter updates after its save *)

NoUsers == [u \in Users |-> NewUser(emailOf(u), GoodPassword, 0)]
NoTopicCounts == [t \in TopicIds |-> [questionCount |-> 0, followerCount |-> 0]]

createQuestion(author, slugs, t) ==
    [NewQuestion(author, t) EXCEPT !.topics = find(slugs)]

createCounters(question, users, topics) ==
    [users |-> findByIdAndUpdate(users, question.author, 1),
     topics |-> IF Cardinality(question.topics) > 0
                THEN updateMany(topics, question.topics, 1)
                ELSE topics]

----------------------------------------------------------------------------
(* POST /api/topics/:slug/follow.  The Topic schema has no followers path  *)
(* and no incrementFollowerCount method: the handler takes the follow      *)
(* branch and the call of the missing method throws, which is reported as  *)
(* a server error before anything is saved.                                *)

followTopic(topics, slug) ==
    IF slug \notin DOMAIN topics
    THEN [topics |-> topics, res |-> Response(404, "Topic not found", 0, "null")]
    ELSE [topics |-> topics,
          res |-> Response(500, "Server error following topic", 0, "null")]

----------------------------------------------------------------------------
(* GET /:id *)

userVote(d, reader) ==
    IF reader = Anonymous THEN "null"
    ELSE IF includes(d.upvotes, reader) THEN "upvote"
    ELSE IF includes(d.downvotes, reader) THEN "downvote"
    ELSE "null"

getQuestionStats(r, d) == Response(200, "success", voteScore(d), userVote(d, r.user))

getQuestionPlan(r, doc, t) ==
    IF ~exists(r.id) \/ ~doc.isActive
    THEN Answered(Response(404, "Question not found", 0, "null"))
    ELSE IF r.user = Anonymous
    THEN Answered(getQuestionStats(r, doc))
    ELSE Pending(incrementViews(findById(doc), r.user, t))

getQuestionReply(r, sv) ==
    IF sv.error # "none"
    THEN Response(500, "Server error fetching question", 0, "null")
    ELSE getQuestionStats(r, sv.mem)

----------------------------------------------------------------------------
(* A request is handled in two parts: up to its save() (Plan), and the     *)
(* save with the response built after it (Complete).                       *)

Plan(r, doc, t) ==
    CASE r.op = "voteQuestion"   -> voteQuestionPlan(r, doc)
      [] r.op = "addAnswer"      -> addAnswerPlan(r, doc)
      [] r.op = "voteAnswer"     -> voteAnswerPlan(r, doc)
      [] r.op = "updateQuestion" -> updateQuestionPlan(r, doc)
      [] r.op = "deleteQuestion" -> deleteQuestionPlan(r, doc)
      [] OTHER                   -> getQuestionPlan(r, doc, t)

Reply(r, sv) ==
    CASE r.op = "voteQuestion"   -> voteQuestionReply(r, sv)
      [] r.op = "addAnswer"      -> addAnswerReply(r, sv)
      [] r.op = "voteAnswer"     -> voteAnswerReply(r, sv)
      [] r.op = "updateQuestion" -> updateQuestionReply(r, sv)
      [] r.op = "deleteQuestion" -> deleteQuestionReply(r, sv)
      [] OTHER                   -> getQuestionReply(r, sv)

Complete(r, p, cur, t) ==
    IF p.respond
    THEN [doc |-> cur, res |-> p.res, mem |-> cur]
    ELSE LET sv == save(cur, p.m, t)
         IN  [doc |-> sv.doc, res |-> Reply(r, sv), mem |-> sv.mem]

\* a whole handler, run without interruption on the stored document
Handle(r, cur, t) == Complete(r, Plan(r, cur, t), cur, t)

VoteQuestionRequests ==
    {Request("voteQuestion", id, u, vt, 0, <<>>, NoTitle, NoTopics) :
        id \in QuestionIds, u \in Users, vt \in VoteTypes}

AddAnswerRequests ==
    {Request("addAnswer", id, u, "remove", 0, c, NoTitle, NoTopics) :
        id \in QuestionIds, u \in Users, c \in Contents}

VoteAnswerRequests ==
    {Request("voteAnswer", id, u, vt, a, <<>>, NoTitle, NoTopics) :
        id \in QuestionIds, u \in Users, vt \in VoteTypes, a \in AnswerIds}

UpdateQuestionRequests ==
    {Request("updateQuestion", id, u, "remove", 0, <<>>, t, NoTopics) :
        id \in QuestionIds, u \in Users, t \in Titles \cup {NoTitle}}

GetQuestionRequests ==
    {Request("getQuestion", id, u, "remove", 0, <<>>, NoTitle, NoTopics) :
        id \in QuestionIds, u \in Readers}

----------------------------------------------------------------------------
(* The question detail view (src/components/QuestionDetail.jsx).  The      *)
(* component's state is user, answers and votingAnswers; view is the       *)
(* votingAnswers of the render on screen, which the vote buttons' disabled *)
(* attribute and the closures of their click handlers were made from.      *)
(* pending are the vote requests sent and not yet settled, settled the     *)
(* outcomes of those that are, lastClick what the last click did.          *)

NoClick == [answerId |-> 0, voteType |-> "remove", locked |-> FALSE, outcome |-> "none"]

localAnswers(d) ==
    [i \in DOMAIN d.answers |->
        [author |-> d.answers[i].author,
         upvotes |-> d.answers[i].upvotes,
         downvotes |-> d.answers[i].downvotes]]

\* the component after its mount and the fetch of question d
mount(user, d) ==
    [user |-> user, answers |-> localAnswers(d), votingAnswers |-> {},
     view |-> {}, pending |-> <<>>, settled |-> <<>>, lastClick |-> NoClick]

NoClient == mount(Anonymous, NewQuestion(QuestionAuthor, 0))

\* disabled={isVoting || !user || isAnswerAuthor}
isDisabled(c, answerId) ==
    \/ answerId \in c.view
    \/ c.user = Anonymous
    \/ c.answers[answerId].author = c.user

lock_Nothing(set, answerId) == set

\* setVotingAnswers(prev => new Set([...prev, answerId]))
lock(set, answerId) == set \cup {answerId}

\* setVotingAnswers(prev => { newSet.delete(answerId) })
unlock(set, answerId) == set \ {answerId}

clicked(c, answerId, voteType, outcome) ==
    [c EXCEPT !.lastClick = [answerId |-> answerId, voteType |-> voteType,
                             locked |-> answerId \in c.votingAnswers,
                             outcome |-> outcome]]

\* handleAnswerVote up to its await: the checks read the render's values
handleAnswerVote(c, answerId, voteType) ==
    IF c.user = Anonymous
    THEN clicked(c, answerId, voteType, "login")
    ELSE IF c.answers[answerId].author = c.user
    THEN clicked(c, answerId, voteType, "own")
    ELSE IF answerId \in c.view
    THEN clicked(c, answerId, voteType, "locked")
    ELSE [clicked(c, answerId, voteType, "sent") EXCEPT
            !.votingAnswers = lock(@, answerId),
            !.pending = Append(@, [answerId |-> answerId, voteType |-> voteType])]

\* React renders the state updates of a click handler before the next event
flush(c) == [c EXCEPT !.view = c.votingAnswers]

remove(seq, i) == SubSeq(seq, 1, i - 1) \o SubSeq(seq, i + 1, Len(seq))

\* setAnswers(prev => prev.map(...)) after a successful vote
setAnswers(c, answerId, voteType) ==
    [c EXCEPT !.answers[answerId] =
        IF voteType = "upvote"
        THEN [@ EXCEPT !.upvotes = Append(filter(@, c.user), c.user),
                       !.downvotes = filter(@, c.user)]
        ELSE [@ EXCEPT !.upvotes = filter(@, c.user),
                       !.downvotes = Append(filter(@, c.user), c.user)]]

\* handleAnswerVote after its await: try, catch and finally
settle(c, i, ok) ==
    LET p == c.pending[i]
        u == IF ok THEN setAnswers(c, p.answerId, p.voteType) ELSE c
    IN  [u EXCEPT !.votingAnswers = unlock(@, p.answerId),
                  !.pending = remove(@, i),
                  !.settled = Append(@, [answerId |-> p.answerId, ok |-> ok])]

----------------------------------------------------------------------------
(* The sequential specification: every request runs to completion before   *)
(* the next one starts.  All sequences of up to MaxRequests requests.       *)

Slots == {"r1", "r2"}
Idle == [busy |-> FALSE, r |-> NoRequest, p |-> Answered(NoResponse)]

Init ==
    /\ db = NewQuestion(QuestionAuthor, 0)
    /\ prev = NewQuestion(QuestionAuthor, 0)
    /\ now = 0
    /\ req = NoRequest
    /\ res = NoResponse
    /\ memdoc = NewQuestion(QuestionAuthor, 0)
    /\ inflight = [s \in Slots |-> Idle]
    /\ started = 0
    /\ counted = <<>>
    /\ arrived = 0
    /\ userDocs = createCounters(db, NoUsers, NoTopicCounts).users
    /\ topicDocs = createCounters(db, NoUsers, NoTopicCounts).topics
    /\ prevDocs = [users |-> userDocs, topics |-> topicDocs]
    /\ client = NoClient

Serve(r) ==
    LET h == Handle(r, db, now)
    IN  /\ started < MaxRequests
        /\ db' = h.doc
        /\ prev' = db
        /\ started' = started + 1
        /\ req' = r
        /\ res' = h.res
        /\ memdoc' = h.mem
        /\ UNCHANGED <<client, now, inflight, counted, arrived, userDocs, topicDocs, prevDocs>>

VoteQuestion == \E r \in VoteQuestionRequests : Serve(r)

AddAnswer ==
    \E r \in AddAnswerRequests :
        /\ Len(db.answers) < MaxAnswers \/ Plan(r, db, now).respond
        /\ Serve(r)

VoteAnswer == \E r \in VoteAnswerRequests : Serve(r)

UpdateQuestion == \E r \in UpdateQuestionRequests : Serve(r)

GetQuestion == \E r \in GetQuestionRequests : Serve(r)

Next ==
    \/ VoteQuestion
    \/ AddAnswer
    \/ VoteAnswer
    \/ UpdateQuestion
    \/ GetQuestion

Spec == Init /\ [][Next]_vars

----------------------------------------------------------------------------
(* Properties of the sequential specification *)

inBoth(votable, u) == includes(votable.upvotes, u) /\ includes(votable.downvotes, u)
inNeither(votable, u) == ~includes(votable.upvotes, u) /\ ~includes(votable.downvotes, u)
onlyUp(votable, u) == includes(votable.upvotes, u) /\ ~includes(votable.downvotes, u)
onlyDown(votable, u) == ~includes(votable.upvotes, u) /\ includes(votable.downvotes, u)

served(op) == req.op = op /\ exists(req.id)

\* C1: no user identifier is in both the upvotes and the downvotes of one
\* ledger, for the question's ledger and for every answer's ledger, after
\* any sequence of question votes and answer votes
C1_SingleStatePerUser ==
    \A u \in Users :
        /\ ~inBoth(db, u)
        /\ \A i \in DOMAIN db.answers : ~inBoth(db.answers[i], u)

C1_Witness ==
    /\ served("voteAnswer")
    /\ res.status = 200
    /\ req.voteType = "downvote"
    /\ onlyUp(prev.answers[req.answerId], req.user)
    /\ onlyDown(db.answers[req.answerId], req.user)

\* C2: a vote on the question by a user who is not its author leaves the
\* user in upvotes only after upvote, in downvotes only after downvote and
\* in neither set after remove, whatever the ledger was before
C2_VotePostcondition ==
    (/\ served("voteQuestion")
     /\ prev.isActive
     /\ isValidQuestionVote(req.voteType)
     /\ req.user # prev.author)
    => /\ res.status = 200
       /\ req.voteType = "upvote" => onlyUp(db, req.user)
       /\ req.voteType = "downvote" => onlyDown(db, req.user)
       /\ req.voteType = "remove" => inNeither(db, req.user)

C2_Witness ==
    /\ served("voteQuestion")
    /\ req.voteType = "downvote"
    /\ onlyUp(prev, req.user)
    /\ onlyDown(db, req.user)
    /\ \E w \in Users \ {req.user} : includes(db.upvotes, w)

ledgers(d) ==
    [upvotes |-> d.upvotes, downvotes |-> d.downvotes,
     answers |-> [i \in DOMAIN d.answers |->
                    [upvotes |-> d.answers[i].upvotes,
                     downvotes |-> d.answers[i].downvotes]]]

isVote(r) == r.op \in {"voteQuestion", "voteAnswer"}

\* C3: a vote request repeated right after itself leaves every ledger (both
\* arrays of the question and of every answer) exactly as the first
\* application left it
C3_VoteIdempotent ==
    isVote(req) => ledgers(Handle(req, db, now).doc) = ledgers(db)

C3_Witness ==
    /\ served("voteQuestion")
    /\ req.voteType = "upvote"
    /\ res.status = 200
    /\ includes(prev.upvotes, req.user)
    /\ Len(db.upvotes) = 2
    /\ ledgers(Handle(req, db, now).doc) = ledgers(db)

\* C4 (as claimed): a vote on a question by its author fails with Forbidden
\* and leaves the question's upvotes and downvotes as they were
C4_SelfVoteForbidden ==
    (/\ served("voteQuestion")
     /\ prev.isActive
     /\ isValidQuestionVote(req.voteType)
     /\ req.user = prev.author)
    => /\ res.status = 403
       /\ db.upvotes = prev.upvotes
       /\ db.downvotes = prev.downvotes

\* C5: a question's author is in neither of the question's vote sets and an
\* answer's author is in neither of that answer's vote sets
C5_AuthorNeverVotes ==
    /\ inNeither(db, db.author)
    /\ \A i \in DOMAIN db.answers : inNeither(db.answers[i], db.answers[i].author)

C5_Witness ==
    /\ served("voteAnswer")
    /\ isValidAnswerVote(req.voteType)
    /\ req.answerId \in DOMAIN prev.answers
    /\ req.user = prev.answers[req.answerId].author
    /\ res.status = 400
    /\ \E u \in Users : includes(db.answers[req.answerId].upvotes, u)

voters(arr) == {arr[i] : i \in DOMAIN arr}

ledgerScore(votable) ==
    Cardinality(voters(votable.upvotes)) - Cardinality(voters(votable.downvotes))

\* C9: the score returned by a successful question vote, answer vote or
\* question read is the number of users in upvotes minus the number of
\* users in downvotes of the persisted ledger
C9_ScoreInvariant ==
    /\ (served("voteQuestion") /\ res.status = 200)
          => res.voteScore = ledgerScore(db)
    /\ (served("voteAnswer") /\ res.status = 200)
          => res.voteScore = ledgerScore(db.answers[req.answerId])
    /\ (served("getQuestion") /\ res.status = 200)
          => res.voteScore = ledgerScore(db)

C9_Witness ==
    /\ served("voteQuestion")
    /\ res.status = 200
    /\ res.voteScore = 0
    /\ Len(db.upvotes) = 1
    /\ Len(db.downvotes) = 1

\* the result of the question-level vote primitive on a ledger in the state
\* of answer i
questionVoteOn(answer, userId, voteType) ==
    LET q == [NewQuestion(QuestionAuthor, 0) EXCEPT
                !.upvotes = answer.upvotes, !.downvotes = answer.downvotes]
    IN  save(q, vote(findById(q), userId, voteType), 0).doc

sameLedger(a, b) == a.upvotes = b.upvotes /\ a.downvotes = b.downvotes

answerVoteAllowed ==
    /\ served("voteAnswer")
    /\ req.answerId \in DOMAIN prev.answers
    /\ req.user # prev.answers[req.answerId].author

\* C10 (as claimed): an answer vote of any type in upvote, downvote, remove
\* is accepted and leaves the answer's ledger as the question-level vote
\* leaves a question ledger in the same state
C10_AnswerVoteAsQuestionVote ==
    (answerVoteAllowed /\ isValidQuestionVote(req.voteType))
    => /\ res.status = 200
       /\ sameLedger(db.answers[req.answerId],
                     questionVoteOn(prev.answers[req.answerId], req.user, req.voteType))

\* C10 (amended): an answer vote of type upvote or downvote is accepted and
\* leaves the answer's ledger as the question-level vote leaves a question
\* ledger in the same state; an answer vote of type remove is rejected as an
\* invalid vote type and leaves the answer's ledger as it was
C10_AnswerVoteUpDownOnly ==
    /\ (answerVoteAllowed /\ isValidAnswerVote(req.voteType))
       => /\ res.status = 200
          /\ sameLedger(db.answers[req.answerId],
                        questionVoteOn(prev.answers[req.answerId], req.user, req.voteType))
    /\ (served("voteAnswer") /\ req.voteType = "remove")
       => /\ res.status = 400
          /\ res.message = "Invalid vote type"
          /\ db = prev

C10_Witness ==
    /\ answerVoteAllowed
    /\ req.voteType = "upvote"
    /\ res.status = 200
    /\ onlyDown(prev.answers[req.answerId], req.user)
    /\ onlyUp(db.answers[req.answerId], req.user)

\* C11: a question vote whose voteType is not upvote, downvote or remove is
\* answered 400 "Invalid vote type" and leaves the whole question document
\* as it was, whoever votes and whether or not the question exists
C11_InvalidVoteTypeRejected ==
    (req.op = "voteQuestion" /\ req.voteType \notin {"upvote", "downvote", "remove"})
    => /\ res.status = 400
       /\ res.message = "Invalid vote type"
       /\ db = prev

C11_Witness ==
    /\ req.op = "voteQuestion"
    /\ req.id = QId
    /\ req.voteType = "bogus"
    /\ req.user # db.author
    /\ res.status = 400
    /\ Len(db.upvotes) = 1

isBlank(content) == \A i \in DOMAIN content : content[i] = " "

\* C13: an answer with valid content added to a question without answers
\* is persisted as the only answer, not accepted, with empty upvotes and
\* downvotes and the requesting user as its author
C13_NewAnswerInitialState ==
    (/\ req.op = "addAnswer"
     /\ req.id = QId
     /\ req.content = ValidContent
     /\ Len(prev.answers) = 0)
    => /\ res.status = 201
       /\ Len(db.answers) = 1
       /\ db.answers[1].isAccepted = FALSE
       /\ db.answers[1].upvotes = <<>>
       /\ db.answers[1].downvotes = <<>>
       /\ db.answers[1].author = req.user

C13_Witness ==
    /\ req.op = "addAnswer"
    /\ req.content = ValidContent
    /\ Len(prev.answers) = 0
    /\ res.status = 201
    /\ Len(db.answers) = 1
    /\ db.answers[1].author = "u2"

\* C19: an add-answer request whose content is missing, or empty once
\* trimmed, is answered 400 and leaves the answer list and lastActivity
\* (the whole document) as they were
C19_EmptyAnswerRejected ==
    (req.op = "addAnswer" /\ isBlank(req.content))
    => /\ res.status = 400
       /\ res.message = "Answer content is required"
       /\ db.answers = prev.answers
       /\ db.lastActivity = prev.lastActivity
       /\ db = prev

C19_Witness ==
    /\ req.op = "addAnswer"
    /\ req.id = QId
    /\ req.content = BlankContent
    /\ res.status = 400
    /\ Len(db.answers) = 1

wellFormed(r) ==
    \/ r.op = "voteQuestion" /\ r.voteType \in {"upvote", "downvote", "remove"}
    \/ r.op = "voteAnswer" /\ r.voteType \in {"upvote", "downvote"}
    \/ r.op = "addAnswer" /\ ~isBlank(r.content)

----------------------------------------------------------------------------
(* The view-log specification: authenticated reads of the question, one    *)
(* after the other, within one day.  Users are numbered in the order of    *)
(* their first read; a user who has read before may read again at any      *)
(* time.  counted records every entry the handler appended to the log.     *)

\* the identifier of the k-th user to read the question
viewer(k) == ToString(k)

viewRequest(u) == Request("getQuestion", QId, u, "remove", 0, <<>>, NoTitle, NoTopics)

ServeView(u) ==
    LET r == viewRequest(u)
        h == Handle(r, db, now)
    IN  /\ db.views < MaxLogViews
        /\ db' = h.doc
        /\ prev' = db
        /\ req' = r
        /\ res' = h.res
        /\ memdoc' = h.mem
        /\ counted' = IF h.doc.views > db.views
                      THEN Append(counted, Last(h.doc.viewedBy))
                      ELSE counted
        /\ UNCHANGED <<client, now, inflight, started, userDocs, topicDocs, prevDocs>>

FirstView ==
    /\ arrived < MaxArrivals
    /\ ServeView(viewer(arrived + 1))
    /\ arrived' = arrived + 1

Revisit ==
    /\ \E k \in 1 .. arrived : ServeView(viewer(k))
    /\ arrived' = arrived

NextLog ==
    \/ FirstView
    \/ Revisit

SpecLog == Init /\ [][NextLog]_vars

\* the entries counted before the request served last
countedBefore ==
    IF db.views > prev.views THEN SubSeq(counted, 1, Len(counted) - 1) ELSE counted

viewedWithinDay(u) ==
    \E i \in DOMAIN countedBefore :
        /\ countedBefore[i].user = u
        /\ now - countedBefore[i].viewedAt < DayMs

viewedBefore(u) == \E i \in DOMAIN countedBefore : countedBefore[i].user = u

\* C7 (as claimed): a view by a user less than 24 hours after an earlier
\* counted view by the same user changes neither views nor the view log,
\* whatever other users viewed in between; a view after the window has
\* elapsed is counted again
C7_ViewDedup ==
    served("getQuestion") =>
       /\ viewedWithinDay(req.user)
            => (db.views = prev.views /\ db.viewedBy = prev.viewedBy)
       /\ (viewedBefore(req.user) /\ ~viewedWithinDay(req.user))
            => db.views = prev.views + 1

\* C8: the view log holds at most 100 entries and is exactly the last 100
\* entries appended, in the order they were appended
C8_ViewLogBounded ==
    LET n == Len(counted)
        k == Min(n, 100)
    IN  /\ Len(db.viewedBy) <= 100
        /\ db.viewedBy = [i \in 1 .. k |-> counted[n - k + i]]

C8_Witness ==
    /\ db.views = 101
    /\ Len(db.viewedBy) = 100
    /\ db.viewedBy[1].user = viewer(2)
    /\ db.viewedBy[100].user = viewer(101)
    /\ counted[1].user = viewer(1)

----------------------------------------------------------------------------
(* The concurrent specification: up to MaxStarted vote and answer requests *)
(* whose loads and saves interleave.  A handler runs without interruption  *)
(* from its findById to its save(), and from the save to its response.     *)

ConcurrentRequests ==
    {Request("voteQuestion", QId, u, vt, 0, <<>>, NoTitle, NoTopics) :
        u \in Users, vt \in {"upvote", "downvote", "remove"}}
    \cup {Request("addAnswer", QId, u, "remove", 0, ValidContent, NoTitle, NoTopics) :
        u \in Users}
    \cup {Request("voteAnswer", QId, u, vt, a, <<>>, NoTitle, NoTopics) :
        u \in Users, vt \in {"upvote", "downvote"}, a \in AnswerIds}

\* the request is answered before any save
Reject ==
    \E r \in ConcurrentRequests :
        LET p == Plan(r, db, now)
        IN  /\ started < MaxStarted
            /\ p.respond
            /\ started' = started + 1
            /\ req' = r
            /\ res' = p.res
            /\ memdoc' = db
            /\ prev' = db
            /\ UNCHANGED <<client, db, now, inflight, counted, arrived, userDocs, topicDocs, prevDocs>>

\* findById and the changes in memory, up to the call of save()
Load ==
    \E s \in Slots, r \in ConcurrentRequests :
        LET p == Plan(r, db, now)
        IN  /\ started < MaxStarted
            /\ ~inflight[s].busy
            /\ ~p.respond
            /\ started' = started + 1
            /\ inflight' = [inflight EXCEPT ![s] = [busy |-> TRUE, r |-> r, p |-> p]]
            /\ UNCHANGED <<client, db, prev, now, req, res, memdoc, counted, arrived,
                           userDocs, topicDocs, prevDocs>>

\* save() and the response
Save ==
    \E s \in Slots :
        LET c == Complete(inflight[s].r, inflight[s].p, db, now)
        IN  /\ inflight[s].busy
            /\ db' = c.doc
            /\ prev' = db
            /\ req' = inflight[s].r
            /\ res' = c.res
            /\ memdoc' = c.mem
            /\ inflight' = [inflight EXCEPT ![s] = Idle]
            /\ UNCHANGED <<client, now, started, counted, arrived, userDocs, topicDocs, prevDocs>>

NextConc ==
    \/ Reject
    \/ Load
    \/ Save

SpecConc == Init /\ [][NextConc]_vars

saved == req.op \in {"voteQuestion", "addAnswer", "voteAnswer"} /\ res.status \in {200, 201}

\* C6 (as claimed): a save writes the request's in-memory copy back, so
\* after a successful vote or answer-append the persisted ledgers and answer
\* list are those of the copy the request loaded and changed, whatever was
\* saved by other requests since the load
C6_LastWriterWins ==
    saved => /\ ledgers(db) = ledgers(memdoc)
             /\ Len(db.answers) = Len(memdoc.answers)

othersKept(before, after, u) ==
    /\ filter(after.upvotes, u) = filter(before.upvotes, u)
    /\ filter(after.downvotes, u) = filter(before.downvotes, u)

\* C6 (amended): vote and answer-append requests are not serialized, but a
\* save never overwrites what another request has persisted: it leaves the
\* votes of every other user in every ledger and every answer already in
\* the list as they were persisted right before it, and adds its own vote
\* or answer; a save that fails reports a server error and changes nothing
C6_NoSilentOverwrite ==
    /\ othersKept(prev, db, req.user)
    /\ \A i \in DOMAIN prev.answers :
          /\ i \in DOMAIN db.answers
          /\ db.answers[i].author = prev.answers[i].author
          /\ db.answers[i].content = prev.answers[i].content
          /\ othersKept(prev.answers[i], db.answers[i], req.user)
    /\ (saved /\ req.op = "voteQuestion" /\ req.voteType = "upvote")
          => includes(db.upvotes, req.user)
    /\ (saved /\ req.op = "voteQuestion" /\ req.voteType = "downvote")
          => includes(db.downvotes, req.user)
    /\ (saved /\ req.op = "voteAnswer" /\ req.voteType = "upvote")
          => includes(db.answers[req.answerId].upvotes, req.user)
    /\ (saved /\ req.op = "voteAnswer" /\ req.voteType = "downvote")
          => includes(db.answers[req.answerId].downvotes, req.user)
    /\ (saved /\ req.op = "addAnswer")
          => /\ Len(db.answers) = Len(prev.answers) + 1
             /\ Last(db.answers).author = req.user
    /\ res.status = 500 => db = prev

\* another request saved between this request's load and its save, and
\* both votes are persisted
C6_Witness ==
    /\ saved
    /\ req.op = "voteQuestion"
    /\ req.voteType = "upvote"
    /\ memdoc.v < prev.v
    /\ Len(memdoc.upvotes) = 1
    /\ Len(prev.upvotes) = 1
    /\ Len(db.upvotes) = 2

\* a stale whole-array write is refused and reported
C6_WitnessConflict ==
    /\ req.op = "voteQuestion"
    /\ res.status = 500
    /\ memdoc.v < prev.v

----------------------------------------------------------------------------
(* The lifecycle specification: a question created with any topics, then   *)
(* up to MaxLifeRequests requests, one after the other: votes, answers,    *)
(* reads, updates (title and topics), deletes, topic follows.  Time passes *)
(* between requests; now is the time of the request served last.           *)

LifeVoteQuestionRequests ==
    {Request("voteQuestion", QId, u, vt, 0, <<>>, NoTitle, NoTopics) :
        u \in {"u2", "u3"}, vt \in {"upvote", "downvote"}}

LifeAddAnswerRequests ==
    {Request("addAnswer", QId, u, "remove", 0, c, NoTitle, NoTopics) :
        u \in {"u1", "u2"}, c \in {ValidContent, ShortContent}}

LifeVoteAnswerRequests ==
    {Request("voteAnswer", QId, u, vt, a, <<>>, NoTitle, NoTopics) :
        u \in {"u1", "u3"}, vt \in {"upvote", "downvote"}, a \in 1 .. MaxAnswers}

LifeUpdateQuestionRequests ==
    {Request("updateQuestion", QId, u, "remove", 0, <<>>, "t1", NoTopics) :
        u \in Users}
    \cup {Request("updateQuestion", QId, u, "remove", 0, <<>>, NoTitle, ts) :
        u \in Users, ts \in {{}, {"tA", "tX"}}}

LifeGetQuestionRequests ==
    {Request("getQuestion", QId, u, "remove", 0, <<>>, NoTitle, NoTopics) :
        u \in {"u2", Anonymous}}

DeleteQuestionRequests ==
    {Request("deleteQuestion", QId, u, "remove", 0, <<>>, NoTitle, NoTopics) :
        u \in Users}
    \cup {Request("deleteQuestion", "missing", "u1", "remove", 0, <<>>, NoTitle, NoTopics)}

FollowTopicRequests ==
    {Request("followTopic", slug, "u2", "remove", 0, <<>>, NoTitle, NoTopics) :
        slug \in {"tA", "tX"}}

Times == now .. Min(now + 1, MaxNow)

InitLife ==
    \E slugs \in {{}, {"tA", "tX"}, TopicIds} :
        /\ db = createQuestion(QuestionAuthor, slugs, 1)
        /\ prev = db
        /\ now = 1
        /\ req = NoRequest
        /\ res = NoResponse
        /\ memdoc = db
        /\ inflight = [s \in Slots |-> Idle]
        /\ started = 0
        /\ counted = <<>>
        /\ arrived = 0
        /\ userDocs = createCounters(db, NoUsers, NoTopicCounts).users
        /\ topicDocs = createCounters(db, NoUsers, NoTopicCounts).topics
        /\ prevDocs = [users |-> userDocs, topics |-> topicDocs]
        /\ client = NoClient

ServeLife(r, t) ==
    LET h == Handle(r, db, t)
        c == IF r.op = "deleteQuestion"
             THEN deleteCounters(h.mem, h.res, userDocs, topicDocs)
             ELSE [users |-> userDocs, topics |-> topicDocs]
    IN  /\ started < MaxLifeRequests
        /\ now' = t
        /\ db' = h.doc
        /\ prev' = db
        /\ started' = started + 1
        /\ req' = r
        /\ res' = h.res
        /\ memdoc' = h.mem
        /\ userDocs' = c.users
        /\ topicDocs' = c.topics
        /\ prevDocs' = [users |-> userDocs, topics |-> topicDocs]
        /\ UNCHANGED <<client, inflight, counted, arrived>>

LifeVoteQuestion == \E r \in LifeVoteQuestionRequests, t \in Times : ServeLife(r, t)

LifeAddAnswer ==
    \E r \in LifeAddAnswerRequests, t \in Times :
        /\ Len(db.answers) < MaxAnswers
        /\ ServeLife(r, t)

LifeVoteAnswer == \E r \in LifeVoteAnswerRequests, t \in Times : ServeLife(r, t)

LifeUpdateQuestion == \E r \in LifeUpdateQuestionRequests, t \in Times : ServeLife(r, t)

LifeGetQuestion == \E r \in LifeGetQuestionRequests, t \in Times : ServeLife(r, t)

DeleteQuestion == \E r \in DeleteQuestionRequests, t \in Times : ServeLife(r, t)

FollowTopic ==
    \E r \in FollowTopicRequests, t \in Times :
        LET f == followTopic(topicDocs, r.id)
        IN  /\ started < MaxLifeRequests
            /\ now' = t
            /\ prev' = db
            /\ started' = started + 1
            /\ req' = r
            /\ res' = f.res
            /\ memdoc' = db
            /\ topicDocs' = f.topics
            /\ prevDocs' = [users |-> userDocs, topics |-> topicDocs]
            /\ UNCHANGED <<client, db, userDocs, inflight, counted, arrived>>

NextLife ==
    \/ LifeVoteQuestion
    \/ LifeAddAnswer
    \/ LifeVoteAnswer
    \/ LifeUpdateQuestion
    \/ LifeGetQuestion
    \/ DeleteQuestion
    \/ FollowTopic

SpecLife == InitLife /\ [][NextLife]_vars

\* C12: a successful add-answer makes the answer list exactly one longer and
\* leaves lastActivity at or after its previous value; no request of any
\* kind ever moves lastActivity back
C12_AnswerAppend ==
    /\ (req.op = "addAnswer" /\ res.status = 201)
       => /\ Len(db.answers) = Len(prev.answers) + 1
          /\ db.lastActivity >= prev.lastActivity
    /\ db.lastActivity >= prev.lastActivity

C12_Witness ==
    /\ req.op = "addAnswer"
    /\ res.status = 201
    /\ Len(prev.answers) = 1
    /\ Len(db.answers) = 2
    /\ db.lastActivity > prev.lastActivity

sameAnswer(a, b) ==
    a.content = b.content /\ a.author = b.author /\ a.isAccepted = b.isAccepted

\* C14: every request (add-answer, vote, view, update, delete) leaves each
\* answer already in the list at its position with its content, author
\* and isAccepted flag; the list grows only by one answer placed last, and
\* only by an add-answer request
C14_AnswersAppendOnly ==
    /\ Len(db.answers) \in {Len(prev.answers), Len(prev.answers) + 1}
    /\ \A i \in DOMAIN prev.answers : sameAnswer(db.answers[i], prev.answers[i])
    /\ Len(db.answers) = Len(prev.answers) + 1
       => /\ req.op = "addAnswer"
          /\ Last(db.answers).author = req.user

C14_Witness ==
    /\ req.op = "addAnswer"
    /\ res.status = 201
    /\ Len(prev.answers) = 1
    /\ Len(db.answers) = 2
    /\ prev.answers[1].author # req.user
    /\ db.answers[1].author = prev.answers[1].author
    /\ db.answers[2].author = req.user
    /\ db.answers[1].upvotes # <<>>

answerVoted == req.op = "voteAnswer" /\ res.status = 200

\* everything of the question except the ledger of answer i, the version
\* and lastActivity
restOf(d, i) ==
    [d EXCEPT !.answers[i].upvotes = <<>>, !.answers[i].downvotes = <<>>,
              !.v = 0, !.lastActivity = 0]

\* C15 (as claimed): a successful answer vote leaves the question's own
\* votes, views, view log, lastActivity, isActive, the answer list's length
\* and order and every other answer's ledger as they were
C15_AnswerVoteFrame ==
    answerVoted
    => /\ restOf(db, req.answerId) = restOf(prev, req.answerId)
       /\ db.lastActivity = prev.lastActivity

\* C15 (amended): a successful answer vote changes, besides the targeted
\* answer's ledger, only lastActivity, which the pre-save hook sets to the
\* time of the vote; the question's own votes, views, view log, isActive,
\* the answer list's length and order and every other answer's ledger are
\* as they were
C15_AnswerVoteRefreshesActivity ==
    answerVoted
    => /\ restOf(db, req.answerId) = restOf(prev, req.answerId)
       /\ db.lastActivity = now

C15_Witness ==
    /\ answerVoted
    /\ Len(db.answers) = 2
    /\ prev.lastActivity < now
    /\ db.lastActivity = now
    /\ restOf(db, req.answerId) = restOf(prev, req.answerId)

\* C16 (as claimed): after any sequence of question creations and deletions
\* (a delete may be repeated) and topic follows, every questionCount,
\* followerCount and questionsAsked counter is at least 0
C16_CountersNonNegative ==
    /\ \A t \in TopicIds :
          topicDocs[t].questionCount >= 0 /\ topicDocs[t].followerCount >= 0
    /\ \A u \in Users : userDocs[u].questionsAsked >= 0

mayChange(r, d) == r.user = d.author \/ r.user = "u3"

deleted == req.op = "deleteQuestion" /\ req.id = QId /\ mayChange(req, prev)

unauthorized ==
    /\ req.op \in {"updateQuestion", "deleteQuestion"}
    /\ req.id = QId
    /\ ~mayChange(req, prev)

nothingChanged ==
    /\ db = prev
    /\ userDocs = prevDocs.users
    /\ topicDocs = prevDocs.topics

\* C18 (as claimed): an update or delete by a user who is neither the
\* question's author nor an admin is answered Forbidden and changes neither
\* the question nor any questionsAsked or questionCount counter
C18_UnauthorizedForbidden ==
    unauthorized => (res.status = 403 /\ nothingChanged)

\* C18 (amended): an update or delete by a user who is neither the
\* question's author nor an admin changes neither the question nor any
\* counter; it is answered Forbidden, except that an update of a
\* soft-deleted question is answered NotFound
C18_UnauthorizedNoChange ==
    unauthorized
    => /\ nothingChanged
       /\ res.status = IF req.op = "updateQuestion" /\ ~prev.isActive THEN 404 ELSE 403

C18_Witness ==
    /\ unauthorized
    /\ req.op = "deleteQuestion"
    /\ res.status = 403
    /\ db.isActive
    /\ userDocs["u1"].questionsAsked = 1

----------------------------------------------------------------------------
(* The dedup-window specification: up to MaxWindowViews reads of the       *)
(* question, each at the time of the previous read, half a day later or a  *)
(* day later.  now is the time of the read served last.                    *)

WindowTimes == {now, now + (DayMs \div 2), now + DayMs}

WindowView ==
    \E u \in {"u2", "u3"}, t \in WindowTimes :
        LET r == viewRequest(u)
            h == Handle(r, db, t)
        IN  /\ started < MaxWindowViews
            /\ now' = t
            /\ db' = h.doc
            /\ prev' = db
            /\ started' = started + 1
            /\ req' = r
            /\ res' = h.res
            /\ memdoc' = h.mem
            /\ UNCHANGED <<client, inflight, counted, arrived, userDocs, topicDocs, prevDocs>>

WindowAnonymousView ==
    \E t \in WindowTimes :
        LET r == viewRequest(Anonymous)
            h == Handle(r, db, t)
        IN  /\ started < MaxWindowViews
            /\ now' = t
            /\ db' = h.doc
            /\ prev' = db
            /\ started' = started + 1
            /\ req' = r
            /\ res' = h.res
            /\ memdoc' = h.mem
            /\ UNCHANGED <<client, inflight, counted, arrived, userDocs, topicDocs, prevDocs>>

NextWindow ==
    \/ WindowView
    \/ WindowAnonymousView

SpecWindow == Init /\ [][NextWindow]_vars

youngEntry(log, u, t) ==
    \E i \in DOMAIN log : log[i].user = u /\ t - log[i].viewedAt < 86400000

isSuffix(s, full) ==
    /\ Len(s) <= Len(full)
    /\ s = SubSeq(full, Len(full) - Len(s) + 1, Len(full))

\* C21: a read by a user of whom the view log holds no entry younger than
\* 24 hours adds 1 to views and puts one entry with that user and the time
\* of the read at the end of the log; the entries before it are the
\* previous log's, unmodified (all of them while the log is under 100)
C21_CountedView ==
    (/\ req.op = "getQuestion"
     /\ req.id = QId
     /\ req.user # Anonymous
     /\ ~youngEntry(prev.viewedBy, req.user, now))
    => /\ res.status = 200
       /\ db.views = prev.views + 1
       /\ Len(db.viewedBy) = Min(Len(prev.viewedBy) + 1, 100)
       /\ Last(db.viewedBy) = [user |-> req.user, viewedAt |-> now]
       /\ isSuffix(SubSeq(db.viewedBy, 1, Len(db.viewedBy) - 1), prev.viewedBy)

C21_Witness ==
    /\ req.op = "getQuestion"
    /\ req.user = "u2"
    /\ Len(prev.viewedBy) = 2
    /\ prev.viewedBy[1].user = "u2"
    /\ prev.viewedBy[2].user = "u3"
    /\ now - prev.viewedBy[1].viewedAt = 86400000
    /\ Len(db.viewedBy) = 3
    /\ db.views = 3
    /\ SubSeq(db.viewedBy, 1, 2) = prev.viewedBy

----------------------------------------------------------------------------
(* Further properties of the sequential specification Spec *)

votedBy(u, vt) ==
    /\ req.op = "voteQuestion"
    /\ req.id = QId
    /\ req.user = u
    /\ req.voteType = vt

\* C22: for a user A who is not the author: A's upvote on a question
\* without votes returns score 1 and label upvote; A's downvote on the
\* question that holds only A's upvote returns score -1 and label
\* downvote; A's remove on the question that holds only A's downvote
\* returns score 0 and no label; the label a successful vote returns is the
\* array of the persisted ledger that holds A
C22_VoteScenario ==
    \A A \in Users \ {QuestionAuthor} :
        /\ (votedBy(A, "upvote") /\ prev.upvotes = <<>> /\ prev.downvotes = <<>>)
           => (res.status = 200 /\ res.voteScore = 1 /\ res.userVote = "upvote")
        /\ (votedBy(A, "downvote") /\ prev.upvotes = <<A>> /\ prev.downvotes = <<>>)
           => (res.status = 200 /\ res.voteScore = -1 /\ res.userVote = "downvote")
        /\ (votedBy(A, "remove") /\ prev.upvotes = <<>> /\ prev.downvotes = <<A>>)
           => (res.status = 200 /\ res.voteScore = 0 /\ res.userVote = "null")
        /\ (req.op = "voteQuestion" /\ req.user = A /\ res.status = 200)
           => res.userVote = (IF includes(db.upvotes, A) THEN "upvote"
                              ELSE IF includes(db.downvotes, A) THEN "downvote"
                              ELSE "null")

\* the third step of the scenario: upvote, downvote, remove by the same user
C22_Witness ==
    /\ started = 3
    /\ votedBy("u2", "remove")
    /\ prev.upvotes = <<>>
    /\ prev.downvotes = <<"u2">>
    /\ res.status = 200
    /\ res.voteScore = 0
    /\ res.userVote = "null"
    /\ db.upvotes = <<>>
    /\ db.downvotes = <<>>

noDuplicates(arr) ==
    /\ \A i, j \in DOMAIN arr : arr[i] = arr[j] => i = j
    /\ Len(arr) = Cardinality({arr[i] : i \in DOMAIN arr})

\* C29: in the question's ledger and in every answer's ledger no user
\* occurs twice in upvotes or twice in downvotes, so each array's length is
\* its number of distinct voters
C29_NoDuplicateVotes ==
    /\ noDuplicates(db.upvotes)
    /\ noDuplicates(db.downvotes)
    /\ \A i \in DOMAIN db.answers :
          /\ noDuplicates(db.answers[i].upvotes)
          /\ noDuplicates(db.answers[i].downvotes)

\* a user repeats an upvote on an answer and is in the array once
C29_Witness ==
    /\ req.op = "voteAnswer"
    /\ req.voteType = "upvote"
    /\ res.status = 200
    /\ req.answerId \in DOMAIN prev.answers
    /\ includes(prev.answers[req.answerId].upvotes, req.user)
    /\ db.answers[req.answerId].upvotes = <<req.user>>

----------------------------------------------------------------------------
(* Further properties of the view-log specification SpecLog *)

\* C28: reads served one after the other on a question created with
\* views 0 and an empty log never lower views, and the log's length is the
\* smaller of views and 100
C28_ViewsMatchLog ==
    /\ db.views >= prev.views
    /\ Len(db.viewedBy) = Min(db.views, 100)

\* the 101st counted read: views grows, the log stays at 100 entries
C28_Witness ==
    /\ served("getQuestion")
    /\ prev.views = 100
    /\ Len(prev.viewedBy) = 100
    /\ db.views = 101
    /\ Len(db.viewedBy) = 100

----------------------------------------------------------------------------
(* Further properties of the concurrent specification SpecConc *)

\* C24 (as claimed): whatever the interleaving of the loads and saves of
\* vote requests, after a successful question vote the voting user is in
\* at most one of the persisted upvotes and downvotes
C24_SingleStateInterleaved ==
    (req.op = "voteQuestion" /\ res.status = 200)
    => ~(includes(db.upvotes, req.user) /\ includes(db.downvotes, req.user))

----------------------------------------------------------------------------
(* Further properties of the lifecycle specification SpecLife *)

onDeleted ==
    /\ ~prev.isActive
    /\ req.id = QId
    /\ \/ req.op = "voteQuestion" /\ req.voteType \in {"upvote", "downvote", "remove"}
       \/ req.op = "voteAnswer" /\ req.voteType \in {"upvote", "downvote"}
       \/ req.op = "addAnswer" /\ req.content = ValidContent
       \/ req.op = "getQuestion"

\* C25 (as claimed): a question vote, answer vote, add-answer or read on a
\* question whose isActive is false is answered 404, and no request
\* changes the vote sets, answer list, views or view log of such a question
C25_DeletedFrozen ==
    /\ onDeleted => res.status = 404
    /\ ~prev.isActive
       => /\ ledgers(db) = ledgers(prev)
          /\ db.answers = prev.answers
          /\ db.views = prev.views
          /\ db.viewedBy = prev.viewedBy

----------------------------------------------------------------------------
(* The accounts specification: the question of InitLife and the users,     *)
(* then up to MaxUserRequests requests, one after the other: registration, *)
(* login, profile updates, account deletion, and question delete, update,  *)
(* answer and vote.  Time is fixed.                                        *)

ServeUser(r, h) ==
    /\ started < MaxUserRequests
    /\ started' = started + 1
    /\ req' = r
    /\ res' = h.res
    /\ db' = h.doc
    /\ prev' = db
    /\ memdoc' = h.doc
    /\ userDocs' = h.users
    /\ prevDocs' = [users |-> userDocs, topics |-> topicDocs]
    /\ UNCHANGED <<client, now, topicDocs, inflight, counted, arrived>>

Unauthenticated == UserResult(401, "Access denied", userDocs, db)

Authenticated(r, h) ==
    \E pass \in authenticateToken(userDocs, r.user) :
        ServeUser(r, IF pass THEN h ELSE Unauthenticated)

ServeQuestion(r) ==
    LET h == Handle(r, db, now)
        c == IF r.op = "deleteQuestion"
             THEN deleteCounters(h.mem, h.res, userDocs, topicDocs)
             ELSE [users |-> userDocs, topics |-> topicDocs]
    IN  \E pass \in authenticateToken(userDocs, r.user) :
            IF ~pass
            THEN ServeUser(r, Unauthenticated)
            ELSE /\ started < MaxUserRequests
                 /\ started' = started + 1
                 /\ req' = r
                 /\ res' = h.res
                 /\ db' = h.doc
                 /\ prev' = db
                 /\ memdoc' = h.mem
                 /\ userDocs' = c.users
                 /\ topicDocs' = c.topics
                 /\ prevDocs' = [users |-> userDocs, topics |-> topicDocs]
                 /\ UNCHANGED <<client, now, inflight, counted, arrived>>

\* the question requests of this specification
UsersQuestionRequests ==
    {Request("deleteQuestion", QId, u, "remove", 0, <<>>, NoTitle, NoTopics) :
        u \in {"u1", "u3"}}
    \cup {Request("updateQuestion", QId, "u1", "remove", 0, <<>>, "t1", NoTopics),
          Request("addAnswer", QId, "u2", "remove", 0, ValidContent, NoTitle, NoTopics),
          Request("voteQuestion", QId, "u2", "upvote", 0, <<>>, NoTitle, NoTopics)}

\* the account requests of this specification, but for the logins
AccountRequests ==
    {UserRequest("register", x[1], Anonymous, emailOf(x[2]), x[3], NoBio, NoFlag) :
        x \in {<<"u4", "u4", GoodPassword>>, <<"u4", "u2", GoodPassword>>,
               <<"u2", "u4", GoodPassword>>, <<"u4", "u4", ShortPassword>>}}
    \cup {UserRequest("updateProfile", u, u, e, <<>>, b, NoFlag) :
        u \in {"u1", "u2"}, e \in {NoEmail, emailOf("u1")}, b \in {NoBio, "b1"}}
    \cup {UserRequest("updateUser", target, u, NoEmail, <<>>, b, flag) :
        target \in {"u1", "u2", "u9"}, u \in {"u2", "u3"}, b \in {NoBio, "b1"},
        flag \in {NoFlag, {TRUE}, {FALSE}}}
    \cup {UserRequest("deleteUser", target, u, NoEmail, <<>>, NoBio, NoFlag) :
        target \in {"u1", "u2", "u3", "u9"}, u \in Users}

UsersDeleteQuestion ==
    \E r \in {x \in UsersQuestionRequests : x.op = "deleteQuestion"} : ServeQuestion(r)

UsersUpdateQuestion ==
    \E r \in {x \in UsersQuestionRequests : x.op = "updateQuestion"} : ServeQuestion(r)

UsersAddAnswer ==
    \E r \in {x \in UsersQuestionRequests : x.op = "addAnswer"} :
        /\ Len(db.answers) < MaxAnswers
        /\ ServeQuestion(r)

UsersVoteQuestion ==
    \E r \in {x \in UsersQuestionRequests : x.op = "voteQuestion"} : ServeQuestion(r)

Register ==
    \E r \in {x \in AccountRequests : x.op = "register"} :
        ServeUser(r, register(userDocs, db, r, now))

Login ==
    \E e \in {emailOf("u1"), emailOf("u2"), userDocs["u1"].email},
       pw \in {GoodPassword, WrongPassword} :
        LET r == UserRequest("login", "undefined", Anonymous, e, pw, NoBio, NoFlag)
        IN  ServeUser(r, login(userDocs, db, r, now))

UpdateProfile ==
    \E r \in {x \in AccountRequests : x.op = "updateProfile"} :
        Authenticated(r, updateProfile(userDocs, db, r))

UpdateUser ==
    \E r \in {x \in AccountRequests : x.op = "updateUser"} :
        Authenticated(r, updateUser(userDocs, db, r))

DeleteUser ==
    \E r \in {x \in AccountRequests : x.op = "deleteUser"} :
        Authenticated(r, deleteUser(userDocs, db, r, now))

NextUsers ==
    \/ UsersDeleteQuestion
    \/ UsersUpdateQuestion
    \/ UsersAddAnswer
    \/ UsersVoteQuestion
    \/ Register
    \/ Login
    \/ UpdateProfile
    \/ UpdateUser
    \/ DeleteUser

SpecUsers == InitLife /\ [][NextUsers]_vars

\* C23: no request removes a user record; an account deletion that is
\* carried out was asked for by the account's owner or by an admin, keeps
\* the user's record with isActive false and leaves every other user's
\* record as it was; a login succeeds only for a user whose isActive is
\* true, so a user with isActive false cannot log in
C23_UsersSoftDeleted ==
    /\ DOMAIN prevDocs.users \subseteq DOMAIN userDocs
    /\ (req.op = "deleteUser" /\ res.status = 200)
       => /\ req.id \in DOMAIN prevDocs.users
          /\ ~userDocs[req.id].isActive
          /\ req.user = req.id \/ role(req.user) = "admin"
          /\ \A u \in DOMAIN prevDocs.users \ {req.id} : userDocs[u] = prevDocs.users[u]
    /\ (req.op = "login" /\ res.status = 200)
       => \E u \in DOMAIN prevDocs.users :
             /\ prevDocs.users[u].email = req.email
             /\ prevDocs.users[u].isActive
             /\ userDocs[u].isActive

\* the deleted user gives the stored email and the right password
C23_Witness ==
    /\ req.op = "login"
    /\ req.password = GoodPassword
    /\ req.email = userDocs["u1"].email
    /\ userDocs["u1"].email.deleted # <<>>
    /\ ~userDocs["u1"].isActive
    /\ res.status = 401

consistent(d, users, topics) ==
    /\ \A u \in DOMAIN users :
          users[u].questionsAsked = (IF d.author = u /\ d.isActive THEN 1 ELSE 0)
    /\ \A t \in DOMAIN topics :
          topics[t].questionCount = (IF t \in d.topics /\ d.isActive THEN 1 ELSE 0)

\* C26 (as claimed): a question delete or account delete that completes
\* without failure, starting where every questionsAsked is the number of
\* the user's active questions and every questionCount the number of
\* active questions referencing the topic, ends where that holds again
C26_CountersConsistent ==
    (/\ req.op \in {"deleteQuestion", "deleteUser"}
     /\ res.status = 200
     /\ consistent(prev, prevDocs.users, prevDocs.topics))
    => consistent(db, userDocs, topicDocs)

\* C27: a question whose isActive is false and a user whose isActive is
\* false keep isActive false through every request
C27_SoftDeleteIrreversible ==
    /\ ~prev.isActive => ~db.isActive
    /\ \A u \in DOMAIN prevDocs.users :
          ~prevDocs.users[u].isActive
             => (u \in DOMAIN userDocs /\ ~userDocs[u].isActive)

\* an admin's profile update with isActive true on a deactivated user
C27_Witness ==
    /\ req.op = "updateUser"
    /\ req.user = "u3"
    /\ req.isActive = {TRUE}
    /\ req.id = "u2"
    /\ ~prevDocs.users["u2"].isActive
    /\ res.status = 404
    /\ ~userDocs["u2"].isActive
    /\ ~db.isActive

----------------------------------------------------------------------------
(* The client specification: the detail view of a question with two        *)
(* answers, opened by a user or by a visitor without a session, then       *)
(* clicks on the vote buttons, responses of the server, failures of the    *)
(* network and renders, in any order.  At most MaxClientVotes requests are *)
(* sent.                                                                   *)

twoAnswers ==
    LET q0 == NewQuestion(QuestionAuthor, 0)
        q1 == Handle(Request("addAnswer", QId, "u1", "remove", 0, ValidContent,
                             NoTitle, NoTopics), q0, 0).doc
    IN  Handle(Request("addAnswer", QId, "u2", "remove", 0, ValidContent,
                       NoTitle, NoTopics), q1, 0).doc

InitClient ==
    \E u \in {"u2", "u3", Anonymous} :
        /\ db = twoAnswers
        /\ prev = db
        /\ now = 0
        /\ req = NoRequest
        /\ res = NoResponse
        /\ memdoc = db
        /\ inflight = [s \in Slots |-> Idle]
        /\ started = 0
        /\ counted = <<>>
        /\ arrived = 0
        /\ userDocs = createCounters(db, NoUsers, NoTopicCounts).users
        /\ topicDocs = createCounters(db, NoUsers, NoTopicCounts).topics
        /\ prevDocs = [users |-> userDocs, topics |-> topicDocs]
        /\ client = mount(u, db)

serverVars == <<db, prev, now, req, res, memdoc, inflight, started, counted,
                arrived, userDocs, topicDocs, prevDocs>>

\* a click on a vote button: a disabled button calls no handler
Click ==
    \E a \in DOMAIN client.answers, vt \in {"upvote", "downvote"} :
        /\ Len(client.pending) + Len(client.settled) < MaxClientVotes
        /\ client' = IF isDisabled(client, a)
                      THEN clicked(client, a, vt, "disabled")
                      ELSE flush(handleAnswerVote(client, a, vt))
        /\ UNCHANGED serverVars

\* the server handles a pending request and its response reaches the client
Respond ==
    \E i \in DOMAIN client.pending :
        LET p == client.pending[i]
            r == Request("voteAnswer", QId, client.user, p.voteType, p.answerId,
                         <<>>, NoTitle, NoTopics)
            h == Handle(r, db, now)
        IN  /\ db' = h.doc
            /\ prev' = db
            /\ req' = r
            /\ res' = h.res
            /\ memdoc' = h.mem
            /\ started' = started + 1
            /\ client' = settle(client, i, h.res.status = 200)
            /\ UNCHANGED <<now, inflight, counted, arrived, userDocs, topicDocs, prevDocs>>

\* the request fails without reaching the server
Fail ==
    \E i \in DOMAIN client.pending :
        /\ client' = settle(client, i, FALSE)
        /\ UNCHANGED serverVars

\* React renders the state updates made after an await
Render ==
    /\ client.view # client.votingAnswers
    /\ client' = flush(client)
    /\ UNCHANGED serverVars

NextClient ==
    \/ Click
    \/ Respond
    \/ Fail
    \/ Render

SpecClient == InitClient /\ [][NextClient]_vars

inFlight(a) == {i \in DOMAIN client.pending : client.pending[i].answerId = a}

\* C30: at most one vote request per answer is in flight; a click on a
\* vote button of an answer whose id is in votingAnswers sends no request;
\* an answer's id is in votingAnswers exactly while a request for it is in
\* flight, so it is removed when the request is settled, by a response or
\* by a failure
C30_AnswerVoteLock ==
    /\ \A a \in DOMAIN client.answers : Cardinality(inFlight(a)) <= 1
    /\ client.lastClick.locked => client.lastClick.outcome # "sent"
    /\ \A a \in DOMAIN client.answers :
          a \in client.votingAnswers <=> inFlight(a) # {}

\* a vote on answer 1 failed, its id was removed, and the next click on
\* answer 1 has sent a request
C30_Witness ==
    /\ Len(client.settled) = 1
    /\ client.settled[1].answerId = 1
    /\ ~client.settled[1].ok
    /\ client.lastClick.outcome = "sent"
    /\ client.lastClick.answerId = 1
    /\ client.votingAnswers = {1}
    /\ Len(client.pending) = 1

====
